---------------------------- MODULE Spec2Model ----------------------------
(*************************************************************************)
(* Daily upload reminder (daily_reminder.py, email_utils.py).            *)
(*                                                                       *)
(* One process: main() builds ImprovedDailyReminderSystem, then          *)
(* start_scheduler() registers run_daily_check with schedule at          *)
(* check_time and loops on schedule.run_pending() / time.sleep(60).      *)
(* The environment is the wall clock, the Drive folder (files with an    *)
(* owner and a modification day), the roster file read by each run, and  *)
(* the outcomes of the Drive and mail service calls.                     *)
(*************************************************************************)
EXTENDS Integers, Sequences, FiniteSets, TLC

\* ---------------------------------------------------------------- bounds
\* Clock ticks per day (the model's clock resolution).
DayLen == 3
\* Last clock value explored.
MaxTime == 5
\* Largest number of files in the monitored folder.
MaxFiles == 3
\* Number of files the listing service puts on one page of a result.
PageSize == 1

\* check_time = "01:00": time of day of the daily trigger, in ticks.
CheckTime == 1

\* ------------------------------------------------------------ identities
OwnerEmails == {"A@X.COM", "b@x.com", "z@x.com"}

\* str.lower() on the identities of the model.
Lower(e) == IF e = "A@X.COM" THEN "a@x.com" ELSE e

\* ---------------------------------------------------------------- roster
\* What pd.read_excel(participants_file) can meet: no file, a sheet
\* without the required columns, or rows of (email, active).
Row(e, a) == [email |-> e, active |-> a]

Rosters ==
  { [status |-> "missing", rows |-> << >>],
    [status |-> "badcols", rows |-> << >>],
    [status |-> "ok", rows |-> << Row("c@x.com", 0) >>],
    [status |-> "ok", rows |-> << Row("a@x.com", 1), Row("b@x.com", 1) >>],
    [status |-> "ok",
     rows |-> << Row("a@x.com", 1), Row("b@x.com", 1), Row("c@x.com", 0) >>] }

NoRoster == [status |-> "unread", rows |-> << >>]

RECURSIVE ActiveEmails(_)
\* df[df['active'] == 1][['email', 'name']].to_dict('records'), in row order.
ActiveEmails(rows) ==
  IF rows = << >> THEN << >>
  ELSE IF Head(rows).active = 1
       THEN << Head(rows).email >> \o ActiveEmails(Tail(rows))
       ELSE ActiveEmails(Tail(rows))

\* load_participants: [] for a missing file, missing columns or any other
\* exception; the active rows otherwise.
load_participants(roster) ==
  IF roster.status = "ok" THEN ActiveEmails(roster.rows) ELSE << >>

\* ----------------------------------------------------------------- clock
Day(t) == t \div DayLen
TimeOfDay(t) == t % DayLen

\* schedule.every().day.at(check_time): the next run is the first
\* occurrence of check_time strictly after the moment of scheduling.
ScheduleNextRunSameDay(t) == Day(t) * DayLen + CheckTime

ScheduleNextRun(t) ==
  IF TimeOfDay(t) < CheckTime
  THEN Day(t) * DayLen + CheckTime
  ELSE (Day(t) + 1) * DayLen + CheckTime

\* ---------------------------------------------------------------- folder
Files == [owner : OwnerEmails, day : 0 .. Day(MaxTime)]

\* q = "... modifiedTime >= '{today}T00:00:00' ...": what the service matches.
Matching(fs, today) == { f \in fs : f.day >= today }

Min(a, b) == IF a < b THEN a ELSE b

\* The first page of a listing: PageSize of the matching files, in the
\* order the service chooses; the rest is on later pages.
FirstPages(m) ==
  { p \in SUBSET m : Cardinality(p) = Min(PageSize, Cardinality(m)) }

\* A file of the folder modified on day d whose owner is the participant.
HasUpload(fs, d, email) ==
  \E f \in fs : f.day = d /\ Lower(f.owner) = Lower(email)

\* check_files_uploaded_today: the result for one listing outcome.  Only
\* results.get('files') of the first response is scanned; HttpError gives
\* False; any other exception leaves the function.
check_files_uploaded_today(outcome, page, email) ==
  CASE outcome = "ok" ->
         IF \E f \in page : Lower(f.owner) = Lower(email)
         THEN "True" ELSE "False"
    [] outcome = "HttpError" -> "False"
    [] OTHER -> "raise"

\* get_drive_folder_id: items[0]['id'], None when no folder matches or on
\* HttpError; any other exception leaves the function.
get_drive_folder_id(outcome) ==
  CASE outcome = "found" -> "fid"
    [] outcome = "notfound" -> "None"
    [] outcome = "HttpError" -> "None"
    [] OTHER -> "raise"

\* run_daily_check: "if not folder_id: return".
folder_missing(folder_id) == folder_id = "None"

\* ------------------------------------------------------------------ mail
\* send_email: True when mail_instance.send returns, False for every
\* Exception raised while building or sending the message.
send_email_propagates(outcome) == IF outcome = "ok" THEN "True" ELSE "raise"

send_email(outcome) == IF outcome = "ok" THEN "True" ELSE "False"

\* run_daily_check: "if send_reminder_email(...): reminders_sent += 1".
count_reminder_always(n, sent) == n + 1

count_reminder(n, sent) == IF sent = "True" THEN n + 1 ELSE n

\* --------------------------------------------------------------- startup
TokenStates == {"missing", "valid", "expired_refreshable", "invalid"}

\* setup_google_services: "service" when build returns, "none" when the
\* method logs and returns without a service, "raise" when an exception
\* leaves it (creds.refresh failing).
setup_google_services(token, refreshOK, buildOutcome) ==
  CASE token = "missing" -> "none"
    [] token = "invalid" -> "none"
    [] token = "expired_refreshable" /\ ~refreshOK -> "raise"
    [] OTHER -> IF buildOutcome = "ok" THEN "service" ELSE "none"

\* ----------------------------------------------------------------- state
VARIABLES
  pc,             \* position of the process
  exitCode,       \* exit status, meaningful once pc is "stopped" or "exited"
  drive_service,  \* self.drive_service is not None
  mail_username,  \* self.app.config['MAIL_USERNAME'] is set
  now,            \* wall clock
  next_run,       \* schedule's next_run of the job, -1 before scheduling
  schedStart,     \* clock value when the job was scheduled, -1 before
  files,          \* the monitored folder
  df,             \* the roster as read by the current run
  participants,   \* run_daily_check's participants
  folder_id,      \* run_daily_check's folder_id
  idx,            \* position of the for loop in participants
  reminders_sent,
  upload_count,
  results,        \* per participant of the current run: what happened
  runDay,         \* day on which the current run started
  runError,       \* per-run error met by the current or last run
  passes,         \* trigger times for which a pass was started
  numPasses       \* number of passes started

vars == << pc, exitCode, drive_service, mail_username, now, next_run,
           schedStart, files, df, participants, folder_id, idx,
           reminders_sent, upload_count, results, runDay, runError,
           passes, numPasses >>

envVars == << now, files >>
svcVars == << drive_service, mail_username >>
runLocals == << df, participants, folder_id, idx, reminders_sent,
                upload_count, results >>
schedVars == << next_run, schedStart, passes, numPasses >>

LoopStates == {"poll", "sleep"}
RunStates == {"run_services", "run_load", "run_folder", "run_loop",
              "run_send", "run_summary"}

Init ==
  /\ pc = "main"
  /\ exitCode = 0
  /\ drive_service = FALSE
  /\ mail_username = FALSE
  /\ now \in 0 .. (DayLen - 1)
  /\ next_run = -1
  /\ schedStart = -1
  /\ files = {}
  /\ df = NoRoster
  /\ participants = << >>
  /\ folder_id = "None"
  /\ idx = 0
  /\ reminders_sent = 0
  /\ upload_count = 0
  /\ results = << >>
  /\ runDay = 0
  /\ runError = "none"
  /\ passes = {}
  /\ numPasses = 0

\* ----------------------------------------------------------- environment
\* The wall clock advances, whatever the process is doing.
Tick ==
  /\ now < MaxTime
  /\ now' = now + 1
  /\ UNCHANGED << pc, exitCode, svcVars, files, runLocals, schedVars,
                  runDay, runError >>

\* Somebody puts or modifies a file in the folder today.
Upload ==
  /\ Cardinality(files) < MaxFiles
  /\ \E o \in OwnerEmails :
       /\ [owner |-> o, day |-> Day(now)] \notin files
       /\ files' = files \cup { [owner |-> o, day |-> Day(now)] }
  /\ UNCHANGED << pc, exitCode, svcVars, now, runLocals, schedVars,
                  runDay, runError >>

\* ----------------------------------------------------------------- main
\* An exception that reaches main(): logged, then sys.exit(1).
Exit1 ==
  /\ pc' = "exited"
  /\ exitCode' = 1

\* main: ImprovedDailyReminderSystem() -- setup_flask_app, then
\* setup_google_services.
Construct ==
  /\ pc = "main"
  /\ \E mailCreds \in BOOLEAN, token \in TokenStates,
        refreshOK \in BOOLEAN, buildOutcome \in {"ok", "HttpError"} :
       LET g == setup_google_services(token, refreshOK, buildOutcome) IN
         IF g = "raise"
         THEN /\ Exit1
              /\ mail_username' = mailCreds
              /\ UNCHANGED drive_service
         ELSE /\ pc' = "constructed"
              /\ mail_username' = mailCreds
              /\ drive_service' = (g = "service")
              /\ UNCHANGED exitCode
  /\ UNCHANGED << envVars, runLocals, schedVars, runDay, runError >>

\* start_scheduler up to the loop: the job is scheduled.
StartScheduler ==
  /\ pc = "constructed"
  /\ next_run' = ScheduleNextRun(now)
  /\ schedStart' = now
  /\ pc' = "poll"
  /\ UNCHANGED << exitCode, svcVars, envVars, runLocals, passes, numPasses,
                  runDay, runError >>

\* schedule.run_pending(): the job runs when it is due.
RunPending ==
  /\ pc = "poll"
  /\ IF now >= next_run
     THEN /\ pc' = "run_services"
          /\ passes' = passes \cup {next_run}
          /\ numPasses' = numPasses + 1
          /\ runDay' = Day(now)
          /\ runError' = "none"
     ELSE /\ pc' = "sleep"
          /\ UNCHANGED << passes, numPasses, runDay, runError >>
  /\ UNCHANGED << exitCode, svcVars, envVars, runLocals, next_run,
                  schedStart >>

\* time.sleep(60) returns.
Sleep ==
  /\ pc = "sleep"
  /\ pc' = "poll"
  /\ UNCHANGED << exitCode, svcVars, envVars, runLocals, schedVars,
                  runDay, runError >>

\* Ctrl+C inside the loop of start_scheduler: logged, main returns.
KeyboardInterrupt ==
  /\ pc \in LoopStates \cup RunStates
  /\ pc' = "stopped"
  /\ exitCode' = 0
  /\ UNCHANGED << svcVars, envVars, runLocals, schedVars, runDay, runError >>

\* run_daily_check returns: schedule sets last_run and the next run, and
\* run_pending returns to the loop.
JobReturns ==
  /\ pc' = "sleep"
  /\ next_run' = ScheduleNextRun(now)
  /\ df' = NoRoster
  /\ participants' = << >>
  /\ folder_id' = "None"
  /\ idx' = 0
  /\ reminders_sent' = 0
  /\ upload_count' = 0
  /\ results' = << >>
  /\ UNCHANGED << exitCode, svcVars, envVars, schedStart, passes, numPasses,
                  runDay >>

\* ------------------------------------------------------- run_daily_check
\* "Check if all services are ready".
CheckServices ==
  /\ pc = "run_services"
  /\ IF drive_service /\ mail_username
     THEN /\ pc' = "run_load"
          /\ UNCHANGED << exitCode, svcVars, envVars, runLocals, schedVars,
                          runDay >>
     ELSE JobReturns
  /\ UNCHANGED runError

\* participants = self.load_participants(); "if not participants: return".
LoadParticipants ==
  /\ pc = "run_load"
  /\ \E roster \in Rosters :
       LET ps == load_participants(roster) IN
         IF ps = << >>
         THEN /\ JobReturns
              /\ runError' = "roster"
         ELSE /\ pc' = "run_folder"
              /\ df' = roster
              /\ participants' = ps
              /\ UNCHANGED << exitCode, svcVars, envVars, folder_id, idx,
                              reminders_sent, upload_count, results,
                              schedVars, runDay, runError >>

\* folder_id = self.get_drive_folder_id(folder_name);
\* "if not folder_id: return".
GetDriveFolderId ==
  /\ pc = "run_folder"
  /\ \E outcome \in {"found", "notfound", "HttpError", "Error"} :
       LET fid == get_drive_folder_id(outcome) IN
         IF fid = "raise"
         THEN /\ Exit1
              /\ runError' = "folder"
              /\ UNCHANGED << svcVars, envVars, runLocals, schedVars,
                              runDay >>
         ELSE IF folder_missing(fid)
         THEN /\ JobReturns
              /\ runError' = "folder"
         ELSE /\ pc' = "run_loop"
              /\ folder_id' = fid
              /\ idx' = 1
              /\ runError' = "none"
              /\ UNCHANGED << exitCode, svcVars, envVars, df, participants,
                              reminders_sent, upload_count, results,
                              schedVars, runDay >>

\* The for loop moves to the next participant, or to the summary.
NextPc(i) == IF i > Len(participants) THEN "run_summary" ELSE "run_loop"

\* uploaded_today = self.check_files_uploaded_today(folder_id, email), and
\* the else branch of "if not uploaded_today".
CheckFilesUploadedToday ==
  /\ pc = "run_loop"
  /\ \E outcome \in {"ok", "HttpError", "Error"} :
     \E page \in FirstPages(Matching(files, Day(now))) :
       LET email == participants[idx]
           u == check_files_uploaded_today(outcome, page, email)
           rec == [email |-> email,
                   uploaded |-> (u = "True"),
                   truth |-> HasUpload(files, runDay, email),
                   qday |-> Day(now),
                   listing |-> outcome,
                   sent |-> "none"]
       IN
         IF u = "raise"
         THEN /\ Exit1
              /\ UNCHANGED << idx, upload_count, results >>
         ELSE IF u = "True"
         THEN /\ upload_count' = upload_count + 1
              /\ idx' = idx + 1
              /\ pc' = NextPc(idx + 1)
              /\ results' = Append(results, rec)
              /\ UNCHANGED exitCode
         ELSE /\ pc' = "run_send"
              /\ results' = Append(results, rec)
              /\ UNCHANGED << exitCode, idx, upload_count >>
  /\ UNCHANGED << svcVars, envVars, df, participants, folder_id,
                  reminders_sent, schedVars, runDay, runError >>

\* "if send_reminder_email(email, name, self.mail): reminders_sent += 1".
SendReminderEmail ==
  /\ pc = "run_send"
  /\ \E outcome \in {"ok", "fail"} :
       LET s == send_email(outcome) IN
         IF s = "raise"
         THEN /\ Exit1
              /\ UNCHANGED << idx, reminders_sent, results >>
         ELSE /\ reminders_sent' = count_reminder(reminders_sent, s)
              /\ results' = [results EXCEPT ![idx].sent =
                               IF outcome = "ok" THEN "ok" ELSE "failed"]
              /\ idx' = idx + 1
              /\ pc' = NextPc(idx + 1)
              /\ UNCHANGED exitCode
  /\ UNCHANGED << svcVars, envVars, df, participants, folder_id,
                  upload_count, schedVars, runDay, runError >>

\* The summary is logged and run_daily_check returns.
Summary ==
  /\ pc = "run_summary"
  /\ JobReturns
  /\ UNCHANGED runError

Next ==
  \/ Tick
  \/ Upload
  \/ Construct
  \/ StartScheduler
  \/ RunPending
  \/ Sleep
  \/ KeyboardInterrupt
  \/ CheckServices
  \/ LoadParticipants
  \/ GetDriveFolderId
  \/ CheckFilesUploadedToday
  \/ SendReminderEmail
  \/ Summary

Spec == Init /\ [][Next]_vars

\* ------------------------------------------------------------ properties
Done == DOMAIN results

\* The emails of the rows with active = 1.
ActiveSet(rows) == { rows[i].email : i \in { j \in DOMAIN rows : rows[j].active = 1 } }

NumActive(rows) == Cardinality({ j \in DOMAIN rows : rows[j].active = 1 })

FailedSends == Cardinality({ i \in Done : results[i].sent = "failed" })

\* C1: in a run, a participant is sent a reminder at most once, and only
\* if the participant is active and no file of the folder modified on the
\* run's day is owned by the participant (ignoring case), whatever the
\* outcome of the listing query.
C1_ReminderOnlyWithoutUpload ==
  /\ \A i \in Done :
       results[i].sent = "ok" =>
         /\ results[i].email \in ActiveSet(df.rows)
         /\ ~results[i].truth
  /\ \A i, j \in Done :
       (i # j /\ results[i].sent = "ok" /\ results[j].sent = "ok")
         => results[i].email # results[j].email

\* C2: every active participant who owns an upload of the run's day is
\* classified satisfied, every other active participant is classified
\* reminded, and no inactive participant is classified.
C2_Classification ==
  /\ \A i \in Done :
       /\ results[i].email \in ActiveSet(df.rows)
       /\ results[i].uploaded = results[i].truth
  /\ pc = "run_summary" =>
       { results[i].email : i \in Done } = ActiveSet(df.rows)

\* C3: when the listing succeeds for the run's day, a participant who owns
\* a file of that day is found on whichever page the file is listed.
C3_AllPagesRead ==
  \A i \in Done :
    (results[i].listing = "ok" /\ results[i].qday = runDay
       /\ results[i].truth) => results[i].uploaded

\* C4: a step that leaves the send (other than Ctrl+C) moves the run to
\* the next participant, or to the summary after the last one, with the
\* outcome of the send recorded; a failed send never ends the run.
C4_FailedSendDoesNotStopRun ==
  [][ (pc = "run_send" /\ pc' \notin {"run_send", "stopped"}) =>
        /\ pc' = NextPc(idx + 1)
        /\ idx' = idx + 1
        /\ Len(results') = idx
        /\ results'[idx].sent \in {"ok", "failed"} ]_vars

C4_Witness ==
  \E i, j \in Done :
    i < j /\ results[i].sent = "failed" /\ results[j].sent \in {"ok", "failed"}

\* C5 as stated: at the summary, total = uploads + reminders = number of
\* active participants of the roster.
C5_CountsAddUp ==
  pc = "run_summary" =>
    /\ Len(participants) = upload_count + reminders_sent
    /\ Len(participants) = NumActive(df.rows)

\* C5 amended: at the summary, total = uploads + reminders sent + sends
\* that failed = number of active participants of the roster.
C5_CountsAddUpWithFailedSends ==
  pc = "run_summary" =>
    /\ Len(participants) = upload_count + reminders_sent + FailedSends
    /\ Len(participants) = NumActive(df.rows)
    /\ reminders_sent = Cardinality({ i \in Done : results[i].sent = "ok" })

C5_Witness ==
  pc = "run_summary" /\ FailedSends >= 1 /\ upload_count >= 1

\* C6: once the scheduler loop was entered, the process never exits with
\* an error code.
C6_LoopNeverExitsWithError ==
  schedStart # -1 => ~(pc = "exited" /\ exitCode = 1)

\* C7: a run that met a per-run error (no participant from the roster,
\* folder not found, folder lookup failed) made no listing query and sent
\* nothing, the process is still in the scheduler loop (or was stopped by
\* Ctrl+C) with the job due at a later trigger, and a run starts with
\* nothing kept from the run before.
C7_PerRunErrorAbortsOnlyThatRun ==
  /\ runError # "none" =>
       /\ pc \in LoopStates \cup {"stopped"}
       /\ exitCode = 0
       /\ results = << >>
       /\ reminders_sent = 0
       /\ \A t \in passes : next_run > t
       /\ TimeOfDay(next_run) = CheckTime
  /\ pc \in {"run_services", "run_load"} =>
       /\ df = NoRoster
       /\ participants = << >>
       /\ folder_id = "None"
       /\ results = << >>

\* C8: the scheduler is entered only with the Drive service built and the
\* mail credentials present.
C8_SetupErrorIsFatal ==
  schedStart # -1 => (drive_service /\ mail_username)

\* C9: a pass is started at most once per trigger, only for a trigger
\* that came after the job was scheduled, and while the loop is between
\* passes the job is due at a trigger no pass was started for.
C9_OnePassPerTrigger ==
  /\ numPasses = Cardinality(passes)
  /\ \A t \in passes :
       /\ t > schedStart
       /\ t <= now
       /\ TimeOfDay(t) = CheckTime
  /\ pc \in LoopStates => (next_run \notin passes /\ next_run > schedStart)
  /\ pc \in RunStates => next_run \in passes

C9_Witness ==
  /\ TimeOfDay(schedStart) >= CheckTime
  /\ schedStart >= 0
  /\ numPasses >= 1
  /\ pc \in RunStates

\* C10: all participants of a run are checked against the same day.
C10_SameTargetDate ==
  \A i, j \in Done : results[i].qday = results[j].qday
=============================================================================
